---- MODULE Spec2Model ----
(***************************************************************************)
(* FHIR repository analyzer: schema provisioning (create_db_schema.py),    *)
(* raw-document import (import_fhir_to_repository.py), bundle decoding     *)
(* (utils/fhir_analyzer.py) and extraction to the relational tables        *)
(* (extract_data_from_fhir.py), modelled over an abstract IRIS store.      *)
(*                                                                         *)
(* The store keeps, per table, the rows the program inserted.  It accepts  *)
(* every row: the declared FOREIGN KEY is not enforced by the model, so    *)
(* referential properties proved here rest on the program's own ordering.  *)
(***************************************************************************)
EXTENDS Integers, Sequences, FiniteSets, TLC

VARIABLES
    tables,        \* names of the tables that exist
    indices,       \* <<table, index name>> pairs that exist
    repoRows,      \* rows of FHIRrepository, in insertion order
    patientRows,   \* rows of Patient, in insertion order
    childRows,     \* rows of the six child tables, in insertion order
    nextId,        \* next auto-assigned Patient key
    call,          \* the running or last top-level call
    outcome,       \* how it ended: "none" (running), "returned", "raised"
    failure,       \* what stopped it ("none": nothing did)
    embedFailedAt, \* document index whose embedding request failed (0: none)
    issued,        \* CREATE statements it issued, as <<table, object name>>
    faults,        \* failures of the store or of the embedding service so far
    epc,           \* position of extract_data
    df,            \* extract_data: rows fetched from FHIRrepository (kept until the next call)
    doc_i,         \* extract_data: index of the document being processed
    pat_info_str,  \* extract_data: description of the current document
    pat_data,      \* extract_data: record map of the current document
    res_k,         \* extract_data: index of the resource key being processed
    elem_e,        \* extract_data: index of the element being inserted
    pat_row_id,    \* extract_data: local variable pat_row_id
    resolvedFor,   \* document index get_row_id last returned for (0: none)
    passStart,     \* <<Patient rows, child rows>> stored when extract_data started
    bundle_data,   \* input of _process_bundle
    bundle_done,   \* _process_bundle has returned
    resource_data, \* result of _process_bundle
    patient_table, \* search: the rows of the Patient table, by patient_row_id
    embedding_str, \* build_hybrid_query: its embedding_str argument
    num_results,   \* build_hybrid_query, execute_search: the result cap
    filters,       \* build_hybrid_query, execute_search: the sidebar filters
    search_query,  \* execute_search: the search text
    transformer_ok,\* execute_search: the embedding request succeeds
    sql,           \* the query and parameters last handed to the store
    search_results,\* rows of the last search that found any
    search_status, \* how the last search ended ("none": no search yet)
    parser_call,   \* the decoder called and its argument
    parser_done,   \* the decoder has finished
    parser_result, \* what it returned, or that it raised
    workers        \* interleaved documents: each one's position and pat_row_id

vars == << tables, indices, repoRows, patientRows, childRows, nextId,
           call, outcome, failure, embedFailedAt, issued, faults,
           epc, df, doc_i, pat_info_str, pat_data, res_k, elem_e, pat_row_id,
           resolvedFor, passStart, bundle_data, bundle_done, resource_data,
           patient_table, embedding_str, num_results, filters, search_query,
           transformer_ok, sql, search_results, search_status,
           parser_call, parser_done, parser_result, workers >>

storeVars == << tables, indices, repoRows, patientRows, childRows, nextId >>
callVars == << call, outcome, failure, embedFailedAt, issued >>
extractVars == << epc, df, doc_i, pat_info_str, pat_data, res_k, elem_e,
                  pat_row_id, resolvedFor, passStart >>
bundleVars == << bundle_data, bundle_done, resource_data >>
searchVars == << patient_table, embedding_str, num_results, filters, search_query,
                transformer_ok, sql, search_results, search_status >>
parserVars == << parser_call, parser_done, parser_result >>
\* the state of the functions that are checked on their own
pureVars == << bundleVars, searchVars, parserVars, workers >>

(***************************************************************************)
(* Bounds                                                                  *)
(***************************************************************************)
MaxRepo == 2       \* most rows FHIRrepository holds
MaxPatients == 2   \* most rows the Patient table holds
MaxFaults == 1     \* most failures of the store or the embedding service
MaxEntries == 3    \* longest bundle given to _process_bundle on its own

NULL == "NULL"     \* SQL NULL / Python None for a string value
NoRow == 0         \* pat_row_id not yet bound

(***************************************************************************)
(* Schema: create_db_schema.py                                             *)
(***************************************************************************)
ChildTables ==
    {"AllergyIntolerance", "Immunization", "Observation", "Condition",
     "Procedures", "CarePlan"}

AllTables == {"FHIRrepository", "Patient"} \cup ChildTables

\* init_schema: the tables it drops, in its order
\* a drop order that starts with the referenced table
DropOrderPatientFirst ==
    << "Patient", "FHIRrepository", "CarePlan", "Procedures", "Condition",
       "Observation", "Immunization", "AllergyIntolerance" >>

DropOrder ==
    << "FHIRrepository", "CarePlan", "Procedures", "Condition", "Observation",
       "Immunization", "AllergyIntolerance", "Patient" >>

TableStep(t) == [op |-> "table", table |-> t, name |-> t]
IndexStep(t, c) == [op |-> "index", table |-> t, name |-> c \o "_idx"]
HnswStep(t, n) == [op |-> "hnsw", table |-> t, name |-> n]

\* create_tables: its statements, in program order
CreateSteps ==
    << TableStep("FHIRrepository"), IndexStep("FHIRrepository", "patient_id"),
       TableStep("Patient"), IndexStep("Patient", "patient_id"),
       IndexStep("Patient", "age"), IndexStep("Patient", "gender"),
       HnswStep("Patient", "description_vector_idx"),
       TableStep("AllergyIntolerance"), IndexStep("AllergyIntolerance", "patient_id"),
       TableStep("Immunization"), IndexStep("Immunization", "patient_id"),
       TableStep("Observation"), IndexStep("Observation", "patient_id"),
       TableStep("Condition"), IndexStep("Condition", "patient_id"),
       TableStep("Procedures"), IndexStep("Procedures", "patient_id"),
       TableStep("CarePlan"), IndexStep("CarePlan", "patient_id") >>

\* every index create_tables declares
AllIndices ==
    { <<CreateSteps[j].table, CreateSteps[j].name>> :
        j \in { k \in 1..Len(CreateSteps) : CreateSteps[k].op # "table" } }

\* IRIS_connection.table_exists / index_exists on a schema state
table_exists(db, t) == t \in db.tables
index_exists(db, t, n) == <<t, n>> \in db.indices

\* IRIS_connection.create_table: CREATE TABLE; the store rejects an existing
\* name (fails: the store fails on this statement for another reason)
create_table(db, t, fails) ==
    IF fails THEN [db EXCEPT !.issued = @ \cup {<<t, t>>}, !.failed = TRUE]
    ELSE IF t \in db.tables
    THEN [db EXCEPT !.issued = @ \cup {<<t, t>>}, !.raised = TRUE]
    ELSE [db EXCEPT !.issued = @ \cup {<<t, t>>},
                    !.tables = @ \cup {t}]

\* IRIS_connection.create_index: raises when the index exists, else CREATE INDEX
create_index(db, t, n, fails) ==
    IF index_exists(db, t, n) \/ t \notin db.tables
    THEN [db EXCEPT !.raised = TRUE]
    ELSE IF fails THEN [db EXCEPT !.issued = @ \cup {<<t, n>>}, !.failed = TRUE]
    ELSE [db EXCEPT !.issued = @ \cup {<<t, n>>},
                    !.indices = @ \cup {<<t, n>>}]

\* quick_create_index without its index_exists test
quick_create_index_unguarded(db, t, n, fails) == create_index(db, t, n, fails)

\* IRIS_connection.quick_create_index: create <column>_idx unless it exists
quick_create_index(db, t, n, fails) ==
    IF ~index_exists(db, t, n) THEN create_index(db, t, n, fails) ELSE db

\* IRIS_connection.create_hnsw_index: CREATE INDEX ... AS HNSW; any error is
\* printed and swallowed
create_hnsw_index(db, t, n, fails) ==
    IF ~fails /\ ~index_exists(db, t, n) /\ t \in db.tables
    THEN [db EXCEPT !.issued = @ \cup {<<t, n>>},
                    !.indices = @ \cup {<<t, n>>}]
    ELSE [db EXCEPT !.issued = @ \cup {<<t, n>>}, !.swallowed = TRUE]

\* one statement group of create_tables
CreateStep(db, s, fails) ==
    CASE s.op = "table" ->
           IF ~table_exists(db, s.table) THEN create_table(db, s.table, fails) ELSE db
      [] s.op = "index" -> quick_create_index(db, s.table, s.name, fails)
      [] s.op = "hnsw" ->
           IF ~index_exists(db, s.table, s.name)
           THEN create_hnsw_index(db, s.table, s.name, fails)
           ELSE db

\* create_tables from statement group j on, stopping at a raise; the store
\* fails on the statement of group failAt if that statement is issued
RECURSIVE RunCreate(_, _, _)
RunCreate(db, j, failAt) ==
    IF j > Len(CreateSteps) \/ db.raised \/ db.failed THEN db
    ELSE RunCreate(CreateStep(db, CreateSteps[j], j = failAt), j + 1, failAt)

\* IRIS_connection.drop_table: DROP TABLE IF EXISTS t
drop_table(db, t, fails) ==
    IF fails THEN [db EXCEPT !.failed = TRUE]
    ELSE [db EXCEPT !.tables = @ \ {t},
                    !.indices = { ix \in @ : ix[1] # t },
                    !.dropped = @ \cup {t}]

\* the drops of init_schema from drop j on, stopping at a raise
RECURSIVE RunDrop(_, _, _)
RunDrop(db, j, failAt) ==
    IF j > Len(DropOrder) \/ db.failed THEN db
    ELSE RunDrop(drop_table(db, DropOrder[j], j = failAt), j + 1, failAt)

Range(s) == { s[j] : j \in 1..Len(s) }

\* rows of the child tables that were not dropped
KeepChildRows(dropped) == SelectSeq(childRows, LAMBDA r : r.table \notin dropped)

\* the schema a call starts from; issued: its CREATE statements so far,
\* raised: a connector method raised, failed: the store failed on a statement,
\* swallowed: create_hnsw_index printed an error and went on
SchemaState ==
    [tables |-> tables, indices |-> indices, issued |-> {}, dropped |-> {},
     raised |-> FALSE, failed |-> FALSE, swallowed |-> FALSE]

\* effect of the schema call op that ended in schema state db
SchemaEffect(op, db) ==
    /\ tables' = db.tables
    /\ indices' = db.indices
    /\ repoRows' = IF "FHIRrepository" \in db.dropped THEN << >> ELSE repoRows
    /\ patientRows' = IF "Patient" \in db.dropped THEN << >> ELSE patientRows
    /\ nextId' = IF "Patient" \in db.dropped THEN 1 ELSE nextId
    /\ childRows' = KeepChildRows(db.dropped)
    /\ call' = op
    /\ outcome' = IF db.raised \/ db.failed THEN "raised" ELSE "returned"
    /\ failure' = IF db.raised THEN "exists"
                  ELSE IF db.failed THEN "fault"
                  ELSE IF db.swallowed THEN "hnsw" ELSE "none"
    /\ embedFailedAt' = 0
    /\ issued' = db.issued
    /\ faults' = faults + (IF db.failed \/ db.swallowed THEN 1 ELSE 0)
    /\ passStart' = << 0, 0 >> /\ df' = << >> /\ resolvedFor' = 0

\* the statement of a call of len statements the store fails on (0: none),
\* while failures are left in the budget
FailAt(len) == IF faults < MaxFaults THEN 0..len ELSE {0}
MayFail == IF faults < MaxFaults THEN BOOLEAN ELSE {TRUE}

\* IrisFHIRSchema.create_tables
create_tables ==
    /\ epc = "idle"
    /\ \E n \in FailAt(Len(CreateSteps)) :
          SchemaEffect("create_tables", RunCreate(SchemaState, 1, n))
    /\ UNCHANGED << epc, doc_i, pat_info_str, pat_data, res_k, elem_e,
                    pat_row_id, pureVars >>

\* IrisFHIRSchema.init_schema: drop the eight tables, then create_tables
init_schema ==
    /\ epc = "idle"
    /\ \E d \in FailAt(Len(DropOrder)), n \in FailAt(Len(CreateSteps)) :
          /\ d = 0 \/ n = 0
          /\ SchemaEffect("init_schema",
                          RunCreate(RunDrop(SchemaState, 1, d), 1, n))
    /\ UNCHANGED << epc, doc_i, pat_info_str, pat_data, res_k, elem_e,
                    pat_row_id, pureVars >>

(***************************************************************************)
(* Documents.  An entry of a bundle is abstracted to what the decoding     *)
(* branches on: its resourceType tag, whether its mapper raises on it, and *)
(* for a Patient the business identifier, a parsable birth date and a name.*)
(***************************************************************************)
RegisteredTypes ==
    {"Patient", "Observation", "Condition", "Encounter", "Procedure",
     "MedicationRequest", "DiagnosticReport", "Practitioner", "Organization",
     "Location", "Medication", "AllergyIntolerance", "Immunization", "CarePlan"}

Pat(u) == [rt |-> "Patient", bad |-> FALSE, uuid |-> u, birth |-> TRUE, name |-> TRUE]
Res(t) == [rt |-> t, bad |-> FALSE, uuid |-> NULL, birth |-> FALSE, name |-> FALSE]
Bad(t) == [rt |-> t, bad |-> TRUE, uuid |-> NULL, birth |-> FALSE, name |-> FALSE]
\* a Patient whose birthDate is absent or not of the form YYYY-MM-DD
PatNoBirth(u) == [Pat(u) EXCEPT !.birth = FALSE]
\* a Patient without a name: extract_human_name gives full_name None
PatNoName(u) == [Pat(u) EXCEPT !.name = FALSE]

\* the files the import folder may hold, by name
Bundle(b) ==
    CASE b = "A" -> << Pat("u1"), Res("Encounter"), Res("Condition"),
                       Res("AllergyIntolerance"), Res("AllergyIntolerance") >>
      [] b = "B" -> << Pat("u2"), Res("Procedure"), Res("Procedure"), Res("DiagnosticReport") >>
      [] b = "C" -> << Res("Observation") >>
      [] b = "D" -> << Pat(NULL), Res("Immunization") >>
      [] b = "F" -> << PatNoBirth("u3"), Res("Condition") >>

BundleNames == {"A", "B", "C", "D", "F"}

\* the folders import_fhir may be pointed at: their files in os.walk order
Folders ==
    { << "A" >>, << "A", "B" >>, << "C", "B" >>, << "F", "D" >> }

(***************************************************************************)
(* Bundle processor: utils/fhir_analyzer.py                                *)
(***************************************************************************)
EmptyResourceData == [t \in RegisteredTypes |-> << >>]

\* the flat record a mapper returns for the entry at position pos
Extracted(entry, pos) ==
    [resourceType |-> entry.rt, pos |-> pos, uuid_id |-> entry.uuid,
     birth_date |-> entry.birth, full_name |-> entry.name]

\* resource.get('resourceType', 'Unknown')
resource_type_of(entry) == IF entry.rt = NULL THEN "Unknown" ELSE entry.rt

\* the dispatch putting the newest record first in its list
categorize_and_extract_resource_prepend(acc, entry, pos) ==
    IF resource_type_of(entry) \in RegisteredTypes
    THEN IF entry.bad
         THEN [acc EXCEPT !.ok = FALSE]
         ELSE [acc EXCEPT !.data[entry.rt] = << Extracted(entry, pos) >> \o @]
    ELSE acc

\* FHIRAnalyzer._categorize_and_extract_resource: dispatch on the type tag,
\* append the mapper's record to that type's list; a raising mapper raises
categorize_and_extract_resource(acc, entry, pos) ==
    IF resource_type_of(entry) \in RegisteredTypes
    THEN IF entry.bad
         THEN [acc EXCEPT !.ok = FALSE]
         ELSE [acc EXCEPT !.data[entry.rt] = Append(@, Extracted(entry, pos))]
    ELSE acc

\* the entry loop of _process_bundle from position j on
RECURSIVE ProcessEntries(_, _, _)
ProcessEntries(acc, entries, j) ==
    IF j > Len(entries) \/ ~acc.ok THEN acc
    ELSE ProcessEntries(
            IF entries[j].rt # "NoResource"
            THEN categorize_and_extract_resource(acc, entries[j], j)
            ELSE acc,
            entries, j + 1)

\* FHIRAnalyzer._process_bundle: the per-type lists, or None (ok = FALSE, no
\* lists) when anything in the entry loop raised
process_bundle(entries) ==
    LET r == ProcessEntries([ok |-> TRUE, data |-> EmptyResourceData], entries, 1)
    IN IF r.ok THEN r ELSE [ok |-> FALSE, data |-> EmptyResourceData]

\* the element records one block of _process_patient_info builds from a list
Elements(list, rtype) ==
    [j \in 1..Len(list) |->
        [resource_type |-> rtype, src |-> list[j].resourceType, pos |-> list[j].pos]]

Block(rtype, elements) == [resource_type |-> rtype, elements |-> elements]

Last(s) == s[Len(s)]

\* the description and the record map (as the sequence of its values in
\* insertion order) _process_patient_info builds, given the list its
\* Procedures block reads
PatientInfoBuilt(patient_info, procedures) ==
    LET allergies == patient_info["AllergyIntolerance"]
        immunizations == patient_info["Immunization"]
        observations == patient_info["Observation"]
        conditions == patient_info["Condition"]
        care_plans == patient_info["CarePlan"]
        \* al_list is re-created inside the loop: only the last allergy stays
        al_list == Elements(<< Last(allergies) >>, "AllergyIntolerance")
        out ==
            << Block("Patient", << >>) >>
            \o (IF allergies # << >> THEN << Block("AllergyIntolerance", al_list) >> ELSE << >>)
            \o (IF immunizations # << >>
                THEN << Block("Immunization", Elements(immunizations, "Immunization")) >> ELSE << >>)
            \o (IF observations # << >>
                THEN << Block("Observation", Elements(observations, "Observation")) >> ELSE << >>)
            \o (IF conditions # << >>
                THEN << Block("Condition", Elements(conditions, "Condition")) >> ELSE << >>)
            \o (IF procedures # << >>
                THEN << Block("Procedures", Elements(procedures, "Procedures")) >> ELSE << >>)
            \o (IF care_plans # << >>
                THEN << Block("CarePlan", Elements(care_plans, "CarePlan")) >> ELSE << >>)
        info == [conditions |-> [j \in 1..Len(conditions) |-> conditions[j].pos],
                 allergies |-> [j \in 1..Len(allergies) |-> allergies[j].pos]]
    IN [ok |-> TRUE, info |-> info, out |-> out]

\* _process_patient_info without the failure on a missing Patient or an
\* unparsable birth date
PatientInfoUnvalidated(patient_info, procedures) ==
    PatientInfoBuilt(patient_info, procedures)

\* body of _process_patient_info: raises when the Patient list is empty
\* (address_str is unbound at the end) or the birth date does not parse
\* (strptime raises)
PatientInfoFrom(patient_info, procedures) ==
    LET patients == patient_info["Patient"]
    IN IF patients = << >> \/ ~patients[1].birth_date
       THEN [ok |-> FALSE, info |-> "", out |-> << >>]
       ELSE PatientInfoBuilt(patient_info, procedures)

\* a Procedures block that reads the Encounter list
process_patient_info_encounters(patient_info) ==
    PatientInfoFrom(patient_info, patient_info["Encounter"])

\* FHIRAnalyzer._process_patient_info
process_patient_info(patient_info) ==
    PatientInfoFrom(patient_info, patient_info["Procedure"])

\* what analyze_fhir is handed: a text or an object, the text decoding to a
\* JSON value or not, the value a list or a dict with its resourceType
Document(is_text, json, rt, entries) ==
    [is_text |-> is_text, json |-> json, rt |-> rt, entries |-> entries]
StoredBundle(entries) == Document(TRUE, "dict", "Bundle", entries)

\* what analyze_fhir returns, with the error it logged
Analysis(info, pat_dict, error) == [info |-> info, pat_dict |-> pat_dict, error |-> error]

\* FHIRAnalyzer.analyze_fhir, lines 39-80: info and pat_dict start empty and
\* are assigned by line 62; every exception, those of lines 55, 68 and 70
\* included, is caught and logged, and the values assigned so far are
\* returned
analyze_fhir_data(data) ==
    IF data.is_text /\ data.json = "invalid" THEN Analysis("", << >>, "JSONDecodeError")
    ELSE IF data.json # "dict"
         THEN Analysis("", << >>, "Input must be a JSON string or dict")
    ELSE IF data.rt # "Bundle" THEN Analysis("", << >>, "none")
    ELSE LET patient_info == process_bundle(data.entries)
             r == process_patient_info(patient_info.data)
         IN \* _process_bundle returned None: pat_dict is still empty
            IF ~patient_info.ok THEN Analysis("", << >>, "DataFrame is empty")
            ELSE IF ~r.ok THEN Analysis("", << >>, "_process_patient_info raised")
            ELSE IF r.out = << >> THEN Analysis(r.info, r.out, "DataFrame is empty")
            \* line 66: pat_dict['Patient']['full_name'], the first Patient's;
            \* a KeyError without a Patient record
            ELSE IF patient_info.data["Patient"] = << >>
                 THEN Analysis(r.info, r.out, "KeyError")
            ELSE IF ~patient_info.data["Patient"][1].full_name
                 THEN Analysis(r.info, r.out, "Patient name not found")
            ELSE Analysis(r.info, r.out, "none")

\* analyze_fhir on a stored bundle, as extract_data calls it
analyze_fhir(b) ==
    LET r == analyze_fhir_data(StoredBundle(Bundle(b)))
    IN [info |-> r.info, pat_dict |-> r.pat_dict]

\* FHIRAnalyzer.extract_patient_identifiers: uuid of the first Patient entry,
\* None without one; raises on an entry without a resource before it
RECURSIVE extract_patient_identifiers(_, _)
extract_patient_identifiers(entries, j) ==
    IF j > Len(entries) THEN [ok |-> TRUE, uuid |-> NULL]
    ELSE IF entries[j].rt = "NoResource" THEN [ok |-> FALSE, uuid |-> NULL]
    ELSE IF entries[j].rt = "Patient"
         THEN [ok |-> ~entries[j].bad, uuid |-> entries[j].uuid]
    ELSE extract_patient_identifiers(entries, j + 1)

(***************************************************************************)
(* Import: import_fhir_to_repository.py                                    *)
(***************************************************************************)
\* an insert that writes over the newest row
insert_over_newest(rows, values) ==
    IF rows = << >> THEN << values >> ELSE [rows EXCEPT ![Len(rows)] = values]

\* IRIS_connection.insert (insert_row for extract_data): INSERT one row and
\* commit it; a failing statement is rolled back and raised, the rows
\* committed before it stay
insert(rows, values) == Append(rows, values)

\* the FHIRrepository row import_fhir builds for one file
RepositoryRow(b) ==
    [patient_id |-> extract_patient_identifiers(Bundle(b), 1).uuid, fhir_bundle |-> b]

\* the rows of the first n files of a folder
RECURSIVE ImportedRows(_, _)
ImportedRows(folder, n) ==
    IF n = 0 THEN << >>
    ELSE insert(ImportedRows(folder, n - 1), RepositoryRow(folder[n]))

\* position of the first file whose identifier extraction raises (0: none)
FirstUnreadable(folder) ==
    LET badAt == { j \in 1..Len(folder) :
                     ~extract_patient_identifiers(Bundle(folder[j]), 1).ok }
    IN IF badAt = {} THEN 0 ELSE CHOOSE j \in badAt : \A k \in badAt : j <= k

\* FHIRImporter(...).import_fhir(): one committed insert per file, in walk
\* order; the first failing insert or unreadable file raises (n: files stored)
import_fhir ==
    /\ epc = "idle"
    /\ "FHIRrepository" \in tables
    /\ \E folder \in Folders :
          \E n \in (IF faults < MaxFaults THEN 0..Len(folder) ELSE {Len(folder)})
                    \cup (0..(FirstUnreadable(folder) - 1)) :
          /\ Len(repoRows) + Len(folder) <= MaxRepo
          /\ FirstUnreadable(folder) # 0 => n < FirstUnreadable(folder)
          /\ repoRows' = repoRows \o ImportedRows(folder, n)
          /\ outcome' = IF n = Len(folder) THEN "returned" ELSE "raised"
          /\ failure' = IF n = Len(folder) THEN "none"
                        ELSE IF n + 1 = FirstUnreadable(folder) THEN "unreadable"
                        ELSE "fault"
          /\ faults' = IF failure' = "fault" THEN faults + 1 ELSE faults
          /\ faults' <= MaxFaults
    /\ call' = "import_fhir"
    /\ embedFailedAt' = 0
    /\ issued' = {}
    /\ passStart' = << 0, 0 >> /\ df' = << >> /\ resolvedFor' = 0
    /\ UNCHANGED << tables, indices, patientRows, childRows, nextId,
                    epc, doc_i, pat_info_str, pat_data, res_k, elem_e,
                    pat_row_id, pureVars >>

(***************************************************************************)
(* Extraction: extract_data_from_fhir.py                                   *)
(***************************************************************************)
resources_to_skip == {"Encounter", "DiagnosticReport"}

\* the except clause of extract_data: print the error, return normally
Abort(reason) ==
    /\ failure' = reason
    /\ outcome' = "returned"
    /\ epc' = "idle"
    /\ doc_i' = 0 /\ res_k' = 0 /\ elem_e' = 0
    /\ pat_info_str' = "" /\ pat_data' = << >> /\ pat_row_id' = NoRow

\* the locals and call record an extract_data step leaves alone
ExtractFrame == UNCHANGED << call, issued, resolvedFor, df, passStart, pureVars >>

\* get_row_id returning the key after the matching row's
get_row_id_off_by_one(value) ==
    { r.ID + 1 : r \in { x \in Range(patientRows) : value # NULL /\ x.patient_id = value } }

\* the key of the newest row taken for the key of the row looked up
get_newest_row_id(value) ==
    IF patientRows = << >> THEN {} ELSE { Last(patientRows).ID }

\* IRIS_connection.get_row_id: SELECT ID ... WHERE column = value, first row
\* of the result; the result order is the store's choice.  No row (also for
\* a NULL value, which equals nothing) makes id_df["ID"][0] raise.
get_row_id(value) ==
    { r.ID : r \in { x \in Range(patientRows) : value # NULL /\ x.patient_id = value } }

\* the Patient row extract_data inserts for the current document
PatientInput ==
    [ID |-> nextId, patient_id |-> df[doc_i].patient_id,
     bundle |-> df[doc_i].fhir_bundle, doc |-> doc_i]

\* the child row extract_data inserts for an element (owner: the key of the
\* newest Patient row, the one inserted for the same document)
ChildInput(table_name, element) ==
    [table |-> table_name, patient_id |-> pat_row_id, src |-> element.src,
     pos |-> element.pos, bundle |-> df[doc_i].fhir_bundle, doc |-> doc_i,
     owner |-> IF patientRows = << >> THEN NoRow ELSE Last(patientRows).ID]

\* the key of the row just inserted is assumed instead of looked up
AssumeInsertedKey ==
    /\ pat_row_id' = nextId
    /\ res_k' = res_k + 1
    /\ epc' = "resource"

\* extract_data, lines 81-82: the Patient insert is followed by get_row_id
AfterPatientInsert ==
    /\ epc' = "get_row_id"
    /\ UNCHANGED << res_k, pat_row_id >>

\* extract_data, lines 35-41: check FHIRrepository, fetch its rows
ExtractStart ==
    /\ epc = "idle"
    /\ Len(patientRows) + Len(repoRows) <= MaxPatients
    /\ passStart' = << Len(patientRows), Len(childRows) >>
    /\ call' = "extract_data"
    /\ embedFailedAt' = 0
    /\ issued' = {}
    /\ resolvedFor' = 0
    /\ IF "FHIRrepository" \notin tables
       THEN /\ Abort("table")
            /\ df' = << >>
       ELSE /\ df' = repoRows
            /\ doc_i' = 1
            /\ epc' = "doc"
            /\ failure' = "none"
            /\ outcome' = "none"
            /\ pat_row_id' = NoRow
            /\ UNCHANGED << pat_info_str, pat_data, res_k, elem_e >>
    /\ UNCHANGED << storeVars, faults, pureVars >>

\* extract_data, lines 42-46: analyze the next document, request its embedding
ExtractDoc ==
    /\ epc = "doc"
    /\ doc_i <= Len(df)
    /\ \E embedOK \in MayFail :
          LET a == analyze_fhir(df[doc_i].fhir_bundle)
          IN IF ~embedOK
             THEN /\ faults' = faults + 1
                  /\ Abort("embedding")
                  /\ embedFailedAt' = doc_i
             ELSE /\ UNCHANGED faults
                  /\ IF a.pat_dict # << >>
                     THEN /\ pat_info_str' = a.info
                          /\ pat_data' = a.pat_dict
                          /\ res_k' = 1
                          /\ epc' = "resource"
                          /\ UNCHANGED doc_i
                     ELSE /\ doc_i' = doc_i + 1
                          /\ UNCHANGED << pat_info_str, pat_data, res_k, epc >>
                  /\ UNCHANGED << elem_e, pat_row_id, failure, embedFailedAt, outcome >>
    /\ UNCHANGED storeVars
    /\ ExtractFrame

\* extract_data: the loop over the documents is exhausted, return
ExtractReturn ==
    /\ epc = "doc"
    /\ doc_i > Len(df)
    /\ outcome' = "returned"
    /\ epc' = "idle"
    /\ doc_i' = 0 /\ res_k' = 0 /\ elem_e' = 0
    /\ pat_info_str' = "" /\ pat_data' = << >> /\ pat_row_id' = NoRow
    /\ UNCHANGED << storeVars, faults, failure, embedFailedAt >>
    /\ ExtractFrame

\* extract_data, lines 47-81: next resource key; skip-list, table check,
\* and for the Patient key the insert of the Patient row
ExtractResource ==
    /\ epc = "resource"
    /\ IF res_k > Len(pat_data)
       THEN /\ doc_i' = doc_i + 1
            /\ epc' = "doc"
            /\ UNCHANGED << res_k, elem_e, pat_info_str, pat_data, pat_row_id,
                            failure, outcome, patientRows, nextId, faults >>
       ELSE LET resource_type == pat_data[res_k].resource_type
            IN IF resource_type \in resources_to_skip
               THEN /\ res_k' = res_k + 1
                    /\ UNCHANGED << epc, doc_i, elem_e, pat_info_str, pat_data,
                                    pat_row_id, failure, outcome, patientRows, nextId, faults >>
               ELSE IF resource_type \notin tables
               THEN /\ Abort("table")
                    /\ UNCHANGED << patientRows, nextId, faults >>
               ELSE IF resource_type = "Patient"
               THEN \E insertOK \in MayFail :
                       IF insertOK
                       THEN /\ patientRows' = insert(patientRows, PatientInput)
                            /\ nextId' = nextId + 1
                            /\ AfterPatientInsert
                            /\ UNCHANGED << doc_i, elem_e, pat_info_str,
                                            pat_data, failure, outcome, faults >>
                       ELSE /\ faults' = faults + 1
                            /\ Abort("insert")
                            /\ UNCHANGED << patientRows, nextId >>
               ELSE /\ elem_e' = 1
                    /\ epc' = "element"
                    /\ UNCHANGED << doc_i, res_k, pat_info_str, pat_data,
                                    pat_row_id, failure, outcome, patientRows, nextId, faults >>
    /\ UNCHANGED << tables, indices, repoRows, childRows, embedFailedAt >>
    /\ ExtractFrame

\* extract_data, line 82: resolve the surrogate key by the business identifier
ExtractGetRowId ==
    /\ epc = "get_row_id"
    /\ LET ids == get_row_id(df[doc_i].patient_id)
       IN IF ids = {}
          THEN /\ Abort("rowid")
               /\ UNCHANGED resolvedFor
          ELSE \E id \in ids :
                  /\ pat_row_id' = id
                  /\ resolvedFor' = doc_i
                  /\ res_k' = res_k + 1
                  /\ epc' = "resource"
                  /\ UNCHANGED << doc_i, elem_e, pat_info_str, pat_data, failure, outcome >>
    /\ UNCHANGED << storeVars, faults, embedFailedAt >>
    /\ UNCHANGED << call, issued, df, passStart, pureVars >>

\* extract_data, lines 84-91: insert the next element of a child resource
ExtractElement ==
    /\ epc = "element"
    /\ LET data == pat_data[res_k]
       IN IF elem_e > Len(data.elements)
          THEN /\ res_k' = res_k + 1
               /\ epc' = "resource"
               /\ UNCHANGED << doc_i, elem_e, pat_info_str, pat_data, pat_row_id,
                               failure, outcome, childRows, faults >>
          ELSE IF pat_row_id = NoRow
          THEN /\ Abort("unbound")
               /\ UNCHANGED << childRows, faults >>
          ELSE \E insertOK \in MayFail :
                  IF insertOK
                  THEN /\ childRows' = insert(childRows,
                                          ChildInput(data.resource_type, data.elements[elem_e]))
                       /\ elem_e' = elem_e + 1
                       /\ UNCHANGED << epc, doc_i, res_k, pat_info_str, pat_data,
                                       pat_row_id, failure, outcome, faults >>
                  ELSE /\ faults' = faults + 1
                       /\ Abort("insert")
                       /\ UNCHANGED childRows
    /\ UNCHANGED << tables, indices, repoRows, patientRows, nextId, embedFailedAt >>
    /\ ExtractFrame

(***************************************************************************)
(* Specification of the batch pipeline                                     *)
(***************************************************************************)
\* an empty database, no call made yet
PipelineInit ==
    /\ tables = {} /\ indices = {}
    /\ repoRows = << >> /\ patientRows = << >> /\ childRows = << >>
    /\ nextId = 1
    /\ call = "none" /\ outcome = "none" /\ failure = "none" /\ embedFailedAt = 0
    /\ issued = {}
    /\ faults = 0
    /\ epc = "idle" /\ df = << >> /\ doc_i = 0
    /\ pat_info_str = "" /\ pat_data = << >>
    /\ res_k = 0 /\ elem_e = 0 /\ pat_row_id = NoRow /\ resolvedFor = 0
    /\ passStart = << 0, 0 >>

\* no bundle given to _process_bundle
BundleIdle ==
    /\ bundle_data = << >> /\ bundle_done = FALSE
    /\ resource_data = [ok |-> TRUE, data |-> EmptyResourceData]

\* no search page open
SearchIdle ==
    /\ patient_table = {} /\ embedding_str = NULL /\ num_results = 1
    /\ filters = [gender |-> "Any", deceased |-> "Any", age_range |-> << 0, 120 >>]
    /\ search_query = "" /\ transformer_ok = TRUE
    /\ sql = [query |-> << >>, parameters |-> << >>]
    /\ search_results = << >> /\ search_status = "none"

\* no decoder called
ParserIdle ==
    /\ parser_call = [fn |-> "none", arg |-> NULL]
    /\ parser_done = FALSE
    /\ parser_result = [raised |-> FALSE, value |-> NULL]

\* no documents processed side by side
InterleaveIdle == workers = << >>

Init == PipelineInit /\ BundleIdle /\ SearchIdle /\ ParserIdle /\ InterleaveIdle

Next ==
    \/ create_tables
    \/ init_schema
    \/ import_fhir
    \/ ExtractStart
    \/ ExtractDoc
    \/ ExtractReturn
    \/ ExtractResource
    \/ ExtractGetRowId
    \/ ExtractElement

Spec == Init /\ [][Next]_vars

TypeOK ==
    /\ tables \subseteq AllTables
    /\ indices \subseteq AllIndices
    /\ Len(repoRows) <= MaxRepo
    /\ epc \in {"idle", "doc", "resource", "get_row_id", "element"}
    /\ Len(patientRows) <= MaxPatients
    /\ outcome \in {"none", "returned", "raised"}

(***************************************************************************)
(* Specification of the bundle processor on its own                        *)
(***************************************************************************)
\* the entries a bundle is built from: a Patient, two registered resources,
\* a resource whose mapper raises, an unregistered type, a resource without
\* a type tag, an entry without a resource
EntryKinds ==
    { Pat("u1"), Res("Condition"), Res("Encounter"), Bad("Observation"),
      Res("Basic"), Res(NULL), Res("NoResource") }

Bundles == UNION { [1..m -> EntryKinds] : m \in 0..MaxEntries }

InitBundle ==
    /\ PipelineInit /\ SearchIdle /\ ParserIdle /\ InterleaveIdle
    /\ bundle_data \in Bundles /\ bundle_done = FALSE
    /\ resource_data = [ok |-> TRUE, data |-> EmptyResourceData]

\* one call of FHIRAnalyzer._process_bundle
ProcessBundle ==
    /\ ~bundle_done
    /\ resource_data' = process_bundle(bundle_data)
    /\ bundle_done' = TRUE
    /\ UNCHANGED << storeVars, callVars, faults, extractVars, bundle_data, searchVars,
                    parserVars, workers >>

NextBundle == ProcessBundle

SpecBundle == InitBundle /\ [][NextBundle]_vars

(***************************************************************************)
(* Search: ui/search.py, ui/sidebar.py over the Patient table              *)
(***************************************************************************)
MaxCap == 2        \* largest "Number of results" tried

NullInt == -1      \* SQL NULL in an integer column

\* the Patient rows a search may find, by patient_row_id; dot: the dot
\* product of the row's description_vector with the search vector
SearchRowIds == 1..4

SearchRow(id) ==
    CASE id = 1 -> [gender |-> "Male", deceased |-> 0, age |-> 40, dot |-> 3]
      [] id = 2 -> [gender |-> "Female", deceased |-> 1, age |-> 30, dot |-> 2]
      [] id = 3 -> [gender |-> "Male", deceased |-> NullInt, age |-> 41, dot |-> 2]
      [] id = 4 -> [gender |-> NULL, deceased |-> 0, age |-> 29, dot |-> 1]

\* sidebar.py: the values the filter widgets offer
Genders == {"Any", "Male", "Female"}
VitalStatuses == {"Any", "Alive", "Deceased"}
DefaultAgeRange == << 0, 120 >>
AgeRanges == {DefaultAgeRange, << 30, 40 >>}

\* the embedding_str arguments: None, the empty string, a vector's text
EmbeddingArgs == {NULL, "", "vec"}
\* the search texts: empty, blank, a description
SearchTexts == {"", " ", "diabetes"}
strip(text) == IF text \in {"", " "} THEN "" ELSE text

\* a query parameter: an integer or a string
IntParam(n) == [kind |-> "int", value |-> n]
StrParam(x) == [kind |-> "str", value |-> x]

\* a piece of query text with the parameters appended for it
Fragment(clauses, params) == [query |-> clauses, parameters |-> params]
NoFragment == Fragment(<< >>, << >>)
Cat(a, b) == Fragment(a.query \o b.query, a.parameters \o b.parameters)

\* a similarity target is anything but None
has_target_not_none(e) == e # NULL

\* build_hybrid_query, lines 42 and 77: a similarity target is given
has_target(e) == e # "" /\ e # NULL

\* the similarity column written without its parameter
similarity_column_unbound(e) ==
    IF has_target(e)
    THEN Fragment(<< "VECTOR_DOT_PRODUCT(?) AS similarity" >>, << >>)
    ELSE Fragment(<< "0 AS similarity" >>, << >>)

\* lines 42-51: the similarity column
similarity_column(e) ==
    IF has_target(e)
    THEN Fragment(<< "VECTOR_DOT_PRODUCT(?) AS similarity" >>, << StrParam(e) >>)
    ELSE Fragment(<< "0 AS similarity" >>, << >>)

\* lines 58-60
gender_filter(gender) ==
    IF gender # "Any"
    THEN Fragment(<< "AND gender = ?" >>, << StrParam(gender) >>)
    ELSE NoFragment

\* the vital-status filter with "Alive" as deceased = 0 only
deceased_filter_flag_only(deceased) ==
    IF deceased = "Alive" THEN Fragment(<< "AND deceased = 0" >>, << >>)
    ELSE IF deceased = "Deceased" THEN Fragment(<< "AND deceased = 1" >>, << >>)
    ELSE NoFragment

\* lines 63-66
deceased_filter(deceased) ==
    IF deceased = "Alive"
    THEN Fragment(<< "AND (deceased = 0 OR deceased IS NULL)" >>, << >>)
    ELSE IF deceased = "Deceased" THEN Fragment(<< "AND deceased = 1" >>, << >>)
    ELSE NoFragment

\* lines 69-74
age_filter(age_range) ==
    IF age_range # DefaultAgeRange
    THEN Fragment(<< "AND age BETWEEN ? AND ?" >>,
                  << IntParam(age_range[1]), IntParam(age_range[2]) >>)
    ELSE NoFragment

\* the ordering term left out
order_by_nothing(e) == NoFragment

\* lines 77-79
order_by(e) ==
    IF has_target(e)
    THEN Fragment(<< "ORDER BY VECTOR_DOT_PRODUCT(?) DESC" >>, << StrParam(e) >>)
    ELSE NoFragment

\* build_hybrid_query: the query text as its clauses in textual order, and
\* the parameter list
build_hybrid_query(e, n, gender, deceased, age_range) ==
    Cat(Fragment(<< "SELECT TOP ?" >>, << IntParam(n) >>),
    Cat(similarity_column(e),
    Cat(Fragment(<< "FROM SQLUser.Patient WHERE 1=1" >>, << >>),
    Cat(gender_filter(gender),
    Cat(deceased_filter(deceased),
    Cat(age_filter(age_range), order_by(e)))))))

\* the store's side of iris_conn.query: what each clause asks of its "?"
Placeholders(clause) ==
    CASE clause = "SELECT TOP ?" -> << "int" >>
      [] clause = "VECTOR_DOT_PRODUCT(?) AS similarity" -> << "vector" >>
      [] clause = "AND gender = ?" -> << "str" >>
      [] clause = "AND age BETWEEN ? AND ?" -> << "int", "int" >>
      [] clause = "ORDER BY VECTOR_DOT_PRODUCT(?) DESC" -> << "vector" >>
      [] OTHER -> << >>

\* the number of "?" in the clauses before clause i
RECURSIVE Offset(_, _)
Offset(query, i) ==
    IF i = 1 THEN 0
    ELSE Offset(query, i - 1) + Len(Placeholders(query[i - 1]))

\* the parameter bound to the m-th "?" of clause i: "?" are bound in
\* textual order
Arg(q, i, m) == q.parameters[Offset(q.query, i) + m]

Accepts(want, param) ==
    CASE want = "int" -> param.kind = "int"
      [] want = "str" -> param.kind = "str"
      [] want = "vector" -> param.kind = "str" /\ param.value = "vec"

\* the statement executes: as many parameters as "?", each of a usable type
Executes(q) ==
    /\ Len(q.parameters) = Offset(q.query, Len(q.query) + 1)
    /\ \A i \in 1..Len(q.query) : \A m \in 1..Len(Placeholders(q.query[i])) :
           Accepts(Placeholders(q.query[i])[m], Arg(q, i, m))

ClauseAt(q, clause) == { i \in 1..Len(q.query) : q.query[i] = clause }
HasClause(q, clause) == ClauseAt(q, clause) # {}
TheClause(q, clause) == CHOOSE i \in ClauseAt(q, clause) : TRUE

\* the WHERE clause on one row; a comparison with NULL is not true
Selects(q, id) ==
    LET r == SearchRow(id) IN
    \A i \in 1..Len(q.query) :
        CASE q.query[i] = "AND gender = ?" ->
                 r.gender # NULL /\ r.gender = Arg(q, i, 1).value
          [] q.query[i] = "AND (deceased = 0 OR deceased IS NULL)" ->
                 r.deceased = 0 \/ r.deceased = NullInt
          [] q.query[i] = "AND deceased = 0" -> r.deceased = 0
          [] q.query[i] = "AND deceased = 1" -> r.deceased = 1
          [] q.query[i] = "AND age BETWEEN ? AND ?" ->
                 /\ r.age # NullInt
                 /\ Arg(q, i, 1).value <= r.age
                 /\ r.age <= Arg(q, i, 2).value
          [] OTHER -> TRUE

\* the similarity column of one row
SimilarityOf(q, id) ==
    IF HasClause(q, "VECTOR_DOT_PRODUCT(?) AS similarity")
    THEN SearchRow(id).dot ELSE 0

IsOrdered(q) == HasClause(q, "ORDER BY VECTOR_DOT_PRODUCT(?) DESC")

\* the result sets the store may return: TOP n of the selected rows, after
\* the ordering if there is one; in any order, and any n of them, if not
ResultSets(q, table) ==
    LET cap == Arg(q, TheClause(q, "SELECT TOP ?"), 1).value
        selected == { id \in table : Selects(q, id) }
        n == IF cap < Cardinality(selected) THEN cap ELSE Cardinality(selected)
        picks == { s \in [1..n -> selected] :
                     /\ \A a, b \in 1..n : a # b => s[a] # s[b]
                     /\ IsOrdered(q) =>
                          /\ \A a, b \in 1..n :
                                 a < b => SearchRow(s[a]).dot >= SearchRow(s[b]).dot
                          /\ \A id \in selected : \A a \in 1..n :
                                 id \in Range(s) \/ SearchRow(id).dot <= SearchRow(s[a]).dot }
    IN  { [j \in 1..n |-> [patient_row_id |-> s[j], similarity |-> SimilarityOf(q, s[j])]] :
          s \in picks }

\* the page calls build_hybrid_query and runs the statement
HybridQuery ==
    /\ search_status = "none"
    /\ LET q == build_hybrid_query(embedding_str, num_results, filters.gender,
                                   filters.deceased, filters.age_range) IN
       /\ sql' = q
       /\ IF Executes(q)
          THEN /\ search_results' \in ResultSets(q, patient_table)
               /\ search_status' = "returned"
          ELSE /\ search_results' = search_results
               /\ search_status' = "raised"
    /\ UNCHANGED << storeVars, callVars, faults, extractVars, bundleVars, parserVars,
                    workers, patient_table, embedding_str, num_results, filters,
                    search_query, transformer_ok >>

\* transformer.create_vector: the vector's text, or the service's failure
create_vector(text, ok) ==
    IF ok THEN [raised |-> FALSE, vector |-> "vec"]
    ELSE [raised |-> TRUE, vector |-> NULL]

\* execute_search
execute_search ==
    /\ search_status = "none"
    /\ LET blank == strip(search_query) = ""
           embedding == create_vector(search_query, transformer_ok)
           target == IF blank THEN NULL ELSE embedding.vector
           q == build_hybrid_query(target, num_results, filters.gender,
                                   filters.deceased, filters.age_range)
       IN  IF ~blank /\ embedding.raised
           THEN /\ search_status' = "failed"
                /\ UNCHANGED << sql, search_results >>
           ELSE /\ sql' = q
                /\ IF ~Executes(q)
                   THEN /\ search_status' = "failed"
                        /\ UNCHANGED search_results
                   ELSE \E results \in ResultSets(q, patient_table) :
                          IF results # << >>
                          THEN /\ search_results' = results
                               /\ search_status' = "found"
                          ELSE /\ search_results' = search_results
                               /\ search_status' = "empty"
    /\ UNCHANGED << storeVars, callVars, faults, extractVars, bundleVars, parserVars,
                    workers, patient_table, embedding_str, num_results, filters,
                    search_query, transformer_ok >>

InitSearch ==
    /\ PipelineInit /\ BundleIdle /\ ParserIdle /\ InterleaveIdle
    /\ patient_table \in SUBSET SearchRowIds
    /\ embedding_str \in EmbeddingArgs
    /\ search_query \in SearchTexts
    /\ transformer_ok \in BOOLEAN
    /\ embedding_str = NULL \/ (search_query = "" /\ transformer_ok)
    /\ num_results \in 1..MaxCap
    /\ filters \in [gender : Genders, deceased : VitalStatuses, age_range : AgeRanges]
    /\ sql = [query |-> << >>, parameters |-> << >>]
    /\ search_results = << >> /\ search_status = "none"

NextSearch ==
    \/ HybridQuery
    \/ execute_search

SpecSearch == InitSearch /\ [][NextSearch]_vars

(***************************************************************************)
(* Properties                                                              *)
(***************************************************************************)
\* the Patient rows / child rows the current extraction pass stored for its
\* document j
PatientRowsOf(j) ==
    { patientRows[k] : k \in { i \in (passStart[1] + 1)..Len(patientRows) :
                                  patientRows[i].doc = j } }
ChildRowsOf(j) ==
    { childRows[k] : k \in { i \in (passStart[2] + 1)..Len(childRows) :
                                childRows[i].doc = j } }

\* the <<table, entry position>> of every element the summary builder
\* projects for a stored bundle
ExpectedElements(b) ==
    LET out == analyze_fhir(b).pat_dict
    IN UNION { { << out[k].resource_type, out[k].elements[e].pos >> :
                   e \in 1..Len(out[k].elements) } : k \in 1..Len(out) }

StoredElements(j) == { << c.table, c.pos >> : c \in ChildRowsOf(j) }

DocStored(j, b) ==
    /\ PatientRowsOf(j) # {}
    /\ StoredElements(j) = ExpectedElements(b)

DocAbsent(j) == PatientRowsOf(j) = {} /\ ChildRowsOf(j) = {}

ExtractTerminated == call = "extract_data" /\ outcome # "none"

\* C1: every row of the six child tables has a patient_id equal to the
\* surrogate key of a Patient row that exists in the Patient table, after any
\* sequence of import_fhir and extract_data runs, stopped on an error or not.
C1_ChildRowsReferencePatient ==
    \A c \in Range(childRows) :
        /\ c.table \in ChildTables
        /\ \E p \in Range(patientRows) : p.ID = c.patient_id

\* an extraction pass over a filled Patient table stored child rows and
\* stopped on an error
C1_Witness ==
    /\ ExtractTerminated /\ failure # "none" /\ passStart[1] > 0
    /\ Len(childRows) > passStart[2]

\* C2: within one document, a child insert is issued only after the Patient
\* row of that document was inserted and get_row_id returned for it.
C2_PatientBeforeChildren ==
    [][Len(childRows') > Len(childRows) =>
          /\ PatientRowsOf(doc_i) # {}
          /\ resolvedFor = doc_i
          /\ pat_row_id # NoRow]_vars

\* a child row of the second document of a pass is stored
C2_Witness == \E c \in Range(childRows) : c.doc = 2

\* C3 (as claimed): every child row inserted for document D carries the key
\* of the Patient row inserted for D in the same pass.
C3_ChildCarriesOwnPatientKey ==
    \A c \in Range(childRows) : c.patient_id = c.owner

\* C4 (as claimed): after importing the same folder twice and extracting
\* once, the Patient table holds at most one row per business patient_id.
C4_ReimportNoDuplicate ==
    ( /\ ExtractTerminated /\ failure = "none" /\ passStart[1] = 0
      /\ \E f \in Folders : [j \in 1..Len(df) |-> df[j].fhir_bundle] = f \o f )
    => \A j, k \in 1..Len(patientRows) :
          patientRows[j].patient_id = patientRows[k].patient_id => j = k

\* C5 (as claimed): when decoding or the embedding request fails for one
\* document, every other document of the batch still gets its Patient and
\* child rows stored.
C5_FailureAbortsOnlyThatDocument ==
    ( ExtractTerminated /\ failure \in {"none", "embedding"} )
    => \A j \in 1..Len(df) :
          ( j # embedFailedAt /\ analyze_fhir(df[j].fhir_bundle).pat_dict # << >> )
          => DocStored(j, df[j].fhir_bundle)

\* C6 (as claimed): whenever extract_data terminates, every document has
\* either its Patient row and all its child element rows stored, or no row.
C6_DocumentAllOrNothing ==
    ExtractTerminated
    => \A j \in 1..Len(df) :
          DocStored(j, df[j].fhir_bundle) \/ DocAbsent(j)

\* C7 (as claimed): when a table extract_data needs does not exist, it stops
\* and terminates by raising to its caller.
C7_MissingTableRaises ==
    ( call = "extract_data" /\ failure = "table" )
    => ( epc = "idle" /\ outcome = "raised" )

\* what exists before a schema call, as <<table, object name>>
ExistingObjects == { << t, t >> : t \in tables } \cup indices

C9_NoSkipListRows ==
    \A c \in Range(childRows) :
        c.src \notin resources_to_skip /\ c.table \notin resources_to_skip

\* a document whose Encounter was decoded and accumulated is fully stored
C9_Witness ==
    /\ ExtractTerminated
    /\ \E j \in 1..Len(df) :
          /\ process_bundle(Bundle(df[j].fhir_bundle)).data["Encounter"] # << >>
          /\ DocStored(j, df[j].fhir_bundle)
          /\ ChildRowsOf(j) # {}

\* C10 (as claimed): a malformed entry does not abort the remaining entries:
\* every well-formed entry of a registered type is in the returned lists.
C10_MalformedEntryIsolated ==
    bundle_done =>
        /\ resource_data.ok
        /\ \A j \in 1..Len(bundle_data) :
              ( bundle_data[j].rt \in RegisteredTypes /\ ~bundle_data[j].bad )
              => Extracted(bundle_data[j], j) \in Range(resource_data.data[bundle_data[j].rt])

\* the records of the entries of type t, in entry order
RECURSIVE RecordsOfType(_, _, _)
RecordsOfType(entries, t, j) ==
    IF j > Len(entries) THEN << >>
    ELSE (IF entries[j].rt = t THEN << Extracted(entries[j], j) >> ELSE << >>)
         \o RecordsOfType(entries, t, j + 1)

\* no mapper raises on an entry of the bundle
NoMapperRaises == \A j \in 1..Len(bundle_data) : ~bundle_data[j].bad

\* every registered type's list is its entries' records, in entry order
ListsAreEntriesByType ==
    /\ resource_data.ok
    /\ \A t \in RegisteredTypes :
          resource_data.data[t] = RecordsOfType(bundle_data, t, 1)

FailsPatientValidation(b) ==
    LET patient_info == process_bundle(Bundle(b))
    IN /\ patient_info.ok
       /\ \/ patient_info.data["Patient"] = << >>
          \/ ~patient_info.data["Patient"][1].birth_date

\* C12: a document without a Patient, or whose Patient has no parsable birth
\* date, gets no row in any table, and a pass that no failure of the store or
\* of the embedding service stops stores the documents after it.
C12_InvalidDocumentSkipped ==
    call = "extract_data"
    => \A j \in 1..Len(df) :
          FailsPatientValidation(df[j].fhir_bundle)
          => /\ DocAbsent(j)
             /\ (ExtractTerminated /\ failure = "none")
                => \A k \in (j + 1)..Len(df) :
                      analyze_fhir(df[k].fhir_bundle).pat_dict # << >>
                      => DocStored(k, df[k].fhir_bundle)

\* a pass ended normally with the document after one without a Patient
\* stored
C12_Witness ==
    /\ ExtractTerminated /\ failure = "none"
    /\ Len(df) = 2
    /\ FailsPatientValidation(df[1].fhir_bundle)
    /\ DocStored(2, df[2].fhir_bundle)
    /\ ChildRowsOf(2) # {}


(***************************************************************************)
(* Search properties                                                       *)
(***************************************************************************)
\* the page has run the statement built by build_hybrid_query
QueryRan == search_status \in {"returned", "raised"}

DefaultFilters == [gender |-> "Any", deceased |-> "Any", age_range |-> << 0, 120 >>]

Smaller(a, b) == IF a < b THEN a ELSE b

ReturnedIds == { search_results[j].patient_row_id : j \in 1..Len(search_results) }

\* the result holds each row once, and only rows of the table
ResultIsOfTable ==
    /\ ReturnedIds \subseteq patient_table
    /\ Cardinality(ReturnedIds) = Len(search_results)

\* C13: a query built with no similarity target (None or empty) and the
\* default filters has no filter predicate and no ordering term, gives
\* similarity 0 to every returned row, and returns min(cap, number of
\* Patient rows) rows.
C13_NoTargetDefaultFilters ==
    (QueryRan /\ embedding_str \in {NULL, ""} /\ filters = DefaultFilters) =>
        /\ search_status = "returned"
        /\ sql.query = << "SELECT TOP ?", "0 AS similarity",
                          "FROM SQLUser.Patient WHERE 1=1" >>
        /\ \A j \in 1..Len(search_results) : search_results[j].similarity = 0
        /\ Len(search_results) = Smaller(num_results, Cardinality(patient_table))
        /\ ResultIsOfTable

C13_Witness ==
    /\ search_status = "returned" /\ embedding_str = "" /\ filters = DefaultFilters
    /\ Cardinality(patient_table) > num_results
    /\ Len(search_results) = num_results

\* the rows the chosen filters keep, read off the rows themselves
KeptByFilters(id) ==
    LET r == SearchRow(id) IN
    /\ filters.gender = "Any" \/ r.gender = filters.gender
    /\ filters.deceased = "Alive" => r.deceased \in {0, NullInt}
    /\ filters.deceased = "Deceased" => r.deceased = 1
    /\ filters.age_range # DefaultAgeRange =>
           (filters.age_range[1] <= r.age /\ r.age <= filters.age_range[2])

EligibleIds == { id \in patient_table : KeptByFilters(id) }

\* C14: for every combination of filter values the rows eligible for the
\* result are exactly those that satisfy all active predicates together:
\* every returned row satisfies them, and the result has
\* min(cap, number of such rows) rows.
C14_FiltersConjunctive ==
    QueryRan =>
        /\ search_status = "returned"
        /\ ResultIsOfTable
        /\ ReturnedIds \subseteq EligibleIds
        /\ Len(search_results) = Smaller(num_results, Cardinality(EligibleIds))

C14_Witness ==
    /\ search_status = "returned"
    /\ filters = [gender |-> "Male", deceased |-> "Alive", age_range |-> << 30, 40 >>]
    /\ patient_table = SearchRowIds
    /\ ReturnedIds = {1}

\* C15: with a similarity target the result is the k rows of highest dot
\* product among the rows that pass the filters, in non-increasing
\* similarity order, and the similarity column is the value ordered by.
C15_TopKBySimilarity ==
    (QueryRan /\ embedding_str = "vec") =>
        /\ search_status = "returned"
        /\ ResultIsOfTable
        /\ ReturnedIds \subseteq EligibleIds
        /\ Len(search_results) = Smaller(num_results, Cardinality(EligibleIds))
        /\ \A j \in 1..Len(search_results) :
               search_results[j].similarity = SearchRow(search_results[j].patient_row_id).dot
        /\ \A a, b \in 1..Len(search_results) :
               a < b => search_results[a].similarity >= search_results[b].similarity
        /\ \A id \in EligibleIds \ ReturnedIds : \A j \in 1..Len(search_results) :
               SearchRow(id).dot <= search_results[j].similarity

C15_Witness ==
    /\ search_status = "returned" /\ embedding_str = "vec"
    /\ Len(search_results) = 2
    /\ EligibleIds \ ReturnedIds # {}
    /\ \E id \in patient_table \ EligibleIds :
           SearchRow(id).dot >= search_results[2].similarity

\* execute_search has finished
SearchFinished == search_status \in {"found", "empty", "failed"}

\* C16: when the embedding request for a non-empty search text fails,
\* execute_search does not fail the search: it runs the filter-only,
\* unranked query.
C16_EmbeddingFailureDegrades ==
    (SearchFinished /\ strip(search_query) # "" /\ ~transformer_ok) =>
        /\ search_status # "failed"
        /\ Len(sql.query) > 0
        /\ ~IsOrdered(sql)
(***************************************************************************)
(* Field decoders: utils/fhir_parser.py, and the onset and performed       *)
(* fields of utils/fhir_analyzer.py                                        *)
(***************************************************************************)
MaxList == 2       \* longest list given to a decoder

\* a key that the dict does not have (NULL: the key is there with None)
Missing == "MISSING"

\* dict.get(key) and dict.get(key, default) on the value found at the key
get(v) == IF v = Missing THEN NULL ELSE v
get_default(v, default) == IF v = Missing THEN default ELSE v

\* Python truth of a string or None
Truthy(v) == v # NULL /\ v # Missing /\ v # ""

Returned(v) == [raised |-> FALSE, value |-> v]
Raised == [raised |-> TRUE, value |-> NULL]

\* the sequences of at most MaxList elements of a set
ListsOf(S) == UNION { [1..n -> S] : n \in 0..MaxList }

\* ---- extract_codeable_concept ----
\* coding entries: dicts with display and code, or something that is no dict
Codings ==
    { [kind |-> "str", display |-> NULL, code |-> NULL] } \cup
    [kind : {"dict"}, display : {NULL, "Penicillin"}, code : {NULL, "7980"}]

\* CodeableConcept arguments: None, a string, or a dict with text and coding
Concepts ==
    { [kind |-> "none", text |-> NULL, coding |-> << >>],
      [kind |-> "str", text |-> NULL, coding |-> << >>] } \cup
    [kind : {"dict"}, text : {NULL, "", "Penicillin allergy"}, coding : ListsOf(Codings)]

\* lines 51-59: the first display or code found, going through the codings
RECURSIVE coding_text(_, _)
coding_text(codings, i) ==
    IF i > Len(codings) THEN NULL
    ELSE IF codings[i].kind = "dict" /\ Truthy(codings[i].display) THEN codings[i].display
    ELSE IF codings[i].kind = "dict" /\ Truthy(codings[i].code) THEN codings[i].code
    ELSE coding_text(codings, i + 1)

extract_codeable_concept(cc, prefer_text) ==
    IF cc.kind # "dict" THEN NULL
    ELSE IF prefer_text /\ Truthy(cc.text) THEN cc.text
    ELSE IF coding_text(cc.coding, 1) # NULL THEN coding_text(cc.coding, 1)
    ELSE IF ~prefer_text /\ Truthy(cc.text) THEN cc.text
    ELSE NULL

\* ---- extract_identifiers ----
SyntheaSystem == "https://github.com/synthetichealth/synthea"
SsnSystem == "http://hl7.org/fhir/sid/us-ssn"
\* "us-ssn" in (system or "")
has_ssn_marker(system) == system = SsnSystem

\* the "type" of an identifier: absent, or a dict whose coding list holds
\* the given codes
NoType == [kind |-> "none", coding |-> << >>]
TypeOf(codes) == [kind |-> "coding", coding |-> codes]
Ident(type, system, value) ==
    [kind |-> "dict", type |-> type, system |-> system, value |-> value]

Identifiers ==
    { [kind |-> "str", type |-> NoType, system |-> NULL, value |-> NULL],
      Ident(TypeOf(<< "MR" >>), NULL, "v1"),
      Ident(TypeOf(<< "MR" >>), NULL, "v2"),
      Ident(TypeOf(<< "MR" >>), SyntheaSystem, "v3"),
      Ident(NoType, SyntheaSystem, "v4"),
      Ident(TypeOf(<< "SB" >>), NULL, "v5"),
      Ident(NoType, SsnSystem, "v6"),
      Ident(TypeOf(<< "DL" >>), NULL, "v7"),
      Ident(TypeOf(<< "PPN" >>), NULL, "v8"),
      Ident(TypeOf(<< >>), NULL, "v9"),
      Ident(NoType, NULL, "v10") }

EmptyIdentifiers ==
    [mrn |-> NULL, uuid |-> NULL, ssn |-> NULL, driver_license |-> NULL,
     passport |-> NULL, all_identifiers |-> 0]

\* lines 286-288: ident["type"]["coding"][0] fails on an empty list
type_lookup_raises(ident) ==
    ident.type.kind = "coding" /\ Len(ident.type.coding) = 0

id_type_of(ident) ==
    IF ident.type.kind = "coding" THEN ident.type.coding[1] ELSE NULL

\* lines 291-307: the if/elif chain, then the raw identifier is kept
classify(result, ident) ==
    LET id_type == id_type_of(ident)
        typed ==
            IF id_type = "MR" THEN [result EXCEPT !.mrn = ident.value]
            ELSE IF ident.system = SyntheaSystem THEN [result EXCEPT !.uuid = ident.value]
            ELSE IF id_type = "SB" \/ has_ssn_marker(ident.system)
                 THEN [result EXCEPT !.ssn = ident.value]
            ELSE IF id_type = "DL" THEN [result EXCEPT !.driver_license = ident.value]
            ELSE IF id_type = "PPN" THEN [result EXCEPT !.passport = ident.value]
            ELSE result
    IN  [typed EXCEPT !.all_identifiers = @ + 1]

\* lines 278-307: the loop from identifier i on
RECURSIVE identifiers_from(_, _, _)
identifiers_from(identifier_list, i, result) ==
    IF i > Len(identifier_list) THEN Returned(result)
    ELSE IF identifier_list[i].kind # "dict"
         THEN identifiers_from(identifier_list, i + 1, result)
    ELSE IF type_lookup_raises(identifier_list[i]) THEN Raised
    ELSE identifiers_from(identifier_list, i + 1, classify(result, identifier_list[i]))

\* a list argument: None, or a list of the given items
NoList == [kind |-> "none", items |-> << >>]
ListArg(items) == [kind |-> "list", items |-> items]
ListArgs(S) == { NoList } \cup { ListArg(items) : items \in ListsOf(S) }

extract_identifiers(identifier_list) ==
    IF identifier_list.kind # "list" \/ identifier_list.items = << >>
    THEN Returned(EmptyIdentifiers)
    ELSE identifiers_from(identifier_list.items, 1, EmptyIdentifiers)

\* ---- extract_human_name ----
lower(text) == IF text = "Official" THEN "official" ELSE text

Names ==
    { [kind |-> "str", use |-> Missing, family |-> NULL] } \cup
    [kind : {"dict"}, use : {Missing, NULL, "Official", "temp"},
     family : {"Smith", "Jones"}]

EmptyName == [family |-> NULL, use |-> NULL, full_name |-> NULL]

\* line 121: name.get('use', '').lower() fails when use is None
use_lookup_raises(name) == name.kind = "dict" /\ name.use = NULL

\* lines 119-124: the index of the first official or usual name from i on
\* (0: none), or that the search raised
RECURSIVE preferred_name(_, _)
preferred_name(name_list, i) ==
    IF i > Len(name_list) THEN Returned(0)
    ELSE IF name_list[i].kind # "dict" THEN preferred_name(name_list, i + 1)
    ELSE IF use_lookup_raises(name_list[i]) THEN Raised
    ELSE IF lower(get_default(name_list[i].use, "")) \in {"official", "usual"}
         THEN Returned(i)
    ELSE preferred_name(name_list, i + 1)

extract_human_name(name_list) ==
    IF name_list.kind # "list" \/ name_list.items = << >> THEN Returned(EmptyName)
    ELSE LET found == preferred_name(name_list.items, 1) IN
         IF found.raised THEN Raised
         ELSE LET chosen == IF found.value # 0 THEN name_list.items[found.value]
                            ELSE name_list.items[1]
              IN  IF chosen.kind # "dict" THEN Returned(EmptyName)
                  ELSE Returned([family |-> chosen.family, use |-> get(chosen.use),
                                 full_name |-> chosen.family])

\* ---- extract_dosage ----
\* the shapes of a dosage's "timing" and "doseAndRate"
TimingShapes == {"missing", "not a dict", "no code", "code is None", "code with text"}
DoseShapes == {"missing", "empty list", "dict with doseQuantity", "not a dict"}

Dosages ==
    { [kind |-> "str", timing |-> "missing", dose |-> "missing"] } \cup
    [kind : {"dict"}, timing : TimingShapes, dose : DoseShapes]

EmptyDosage == [timing |-> NULL, dose_quantity |-> NULL]

\* line 418: timing.get('code', {}).get('text') fails when code is None
timing_raises(dosage) == dosage.timing = "code is None"
\* line 434: dose_rate.get fails when doseAndRate[0] is no dict
dose_raises(dosage) == dosage.dose = "not a dict"

extract_dosage(dosage_list) ==
    IF dosage_list.kind # "list" \/ dosage_list.items = << >> THEN Returned(EmptyDosage)
    ELSE LET first == dosage_list.items[1]
             dosage == IF first.kind = "dict" THEN first
                       ELSE [kind |-> "dict", timing |-> "missing", dose |-> "missing"]
         IN  IF timing_raises(dosage) \/ dose_raises(dosage) THEN Raised
             ELSE Returned(
                 [timing |-> CASE dosage.timing = "not a dict" -> NULL
                               [] dosage.timing = "code with text" -> "daily"
                               [] OTHER -> "{}",
                  dose_quantity |-> IF dosage.dose = "dict with doseQuantity"
                                    THEN "5 mg" ELSE NULL])

\* ---- onset of a Condition, performed of a Procedure ----
Alternatives == {"datetime", "period", "age", "string"}

\* a resource, by the alternatives of the field it has
EventResources == SUBSET Alternatives

\* the flat sub-fields one alternative populates
SubFields(prefix, alt) ==
    CASE alt = "datetime" -> { prefix \o "_datetime" }
      [] alt = "period" -> { prefix \o "_period_start", prefix \o "_period_end" }
      [] alt = "age" -> { prefix \o "_age" }
      [] alt = "string" -> { prefix \o "_string" }

\* the first alternative of the order that the resource has ("none": none)
RECURSIVE first_present(_, _, _)
first_present(order, i, resource) ==
    IF i > Len(order) THEN "none"
    ELSE IF order[i] \in resource THEN order[i]
    ELSE first_present(order, i + 1, resource)

\* _extract_condition_data, lines 332-342: the if/elif chain
ConditionOrder == << "datetime", "age", "period", "string" >>
\* _extract_procedure_data, lines 415-425
ProcedureOrder == << "datetime", "period", "string", "age" >>

\* the keys of onset_data
extract_condition_data(resource) ==
    LET alt == first_present(ConditionOrder, 1, resource) IN
    IF alt = "none" THEN {} ELSE SubFields("onset", alt)

\* the keys of performed_data
extract_procedure_data(resource) ==
    LET alt == first_present(ProcedureOrder, 1, resource) IN
    IF alt = "none" THEN {} ELSE SubFields("performed", alt)

\* ---- current age: _process_patient_info, lines 1016-1019 ----
\* a "YYYY-MM-DD" text, by the three numbers written in it
DateText(y, m, d) == [year |-> y, month |-> m, day |-> d]

IsLeap(y) == (y % 4 = 0 /\ y % 100 # 0) \/ y % 400 = 0
DaysIn(y, m) ==
    IF m = 2 THEN (IF IsLeap(y) THEN 29 ELSE 28)
    ELSE IF m \in {4, 6, 9, 11} THEN 30 ELSE 31

\* no birthDate in the resource
NoDate == DateText(0, 0, 0)

\* the texts given as birthDate, not all of them dates
BirthTexts == { DateText(y, m, d) : y \in {1950, 2023, 2024}, m \in {2, 6, 7, 13},
                                   d \in {1, 15, 29, 30} }

\* datetime.strptime(text, "%Y-%m-%d").date(): the date, or ValueError when
\* the text names no day of the calendar, TypeError when it is None
strptime(text) ==
    IF text = NoDate THEN Raised
    ELSE IF text.month \in 1..12 /\ text.day \in 1..DaysIn(text.year, text.month)
         THEN Returned(text)
    ELSE Raised

\* the days date.today() may return
Todays == { t \in BirthTexts : ~strptime(t).raised }

\* the comparison taking a pair equal to the other for smaller
tuple_less_or_equal(a, b) == a[1] < b[1] \/ (a[1] = b[1] /\ a[2] <= b[2])

\* Python's (a1, a2) < (b1, b2)
tuple_less(a, b) == a[1] < b[1] \/ (a[1] = b[1] /\ a[2] < b[2])

\* line 1019: a bool subtracted from an int counts 1 for True
current_age(birth_date, today) ==
    today.year - birth_date.year
        - (IF tuple_less(<< today.month, today.day >>,
                         << birth_date.month, birth_date.day >>) THEN 1 ELSE 0)

\* lines 1017-1019
age_of(birth_text, today) ==
    LET birth_date == strptime(birth_text) IN
    IF birth_date.raised THEN Raised
    ELSE Returned(current_age(birth_date.value, today))

\* ---- description: _process_patient_info, lines 1053-1085, 1118-1137, 1195 ----
\* a text is the sequence of its pieces, the empty text the empty sequence
\* str(age) for the ages described
age_text(age) == IF age = 0 THEN "0" ELSE "74"

\* lines 1053-1056
address_str(address) ==
    IF Truthy(address) THEN << " Address: ", address >> ELSE << >>

\* lines 1057-1060: "if current_age" is false for age 0
age_str(age) == IF age # 0 THEN << " Age: ", age_text(age) >> ELSE << >>

\* the loop adding ", " before every name but the first
RECURSIVE listed(_, _)
listed(names, j) ==
    IF j > Len(names) THEN << >>
    ELSE (IF j > 1 THEN << ", " >> ELSE << >>) \o << names[j] >> \o listed(names, j + 1)

\* lines 1064-1085
allergy_str(allergies) ==
    IF allergies # << >> THEN << "Allergic to: " >> \o listed(allergies, 1) ELSE << >>

\* lines 1119-1137
conditions_str(conditions) ==
    IF conditions # << >> THEN << "Patient has: " >> \o listed(conditions, 1) ELSE << >>

\* the fragments with a separator only between those that are not empty
RECURSIVE join_present(_, _, _)
join_present(fragments, j, started) ==
    IF j > Len(fragments) THEN << >>
    ELSE IF fragments[j] = << >> THEN join_present(fragments, j + 1, started)
    ELSE (IF started THEN << ". " >> ELSE << >>) \o fragments[j]
             \o join_present(fragments, j + 1, TRUE)

\* line 1195: the f-string writes the three separators whatever the
\* fragments hold
description(conditions, allergies, age, address) ==
    conditions_str(conditions) \o << ". " >> \o allergy_str(allergies) \o << ". " >>
        \o age_str(age) \o << ". " >> \o address_str(address)

DescriptionInputs ==
    [conditions : ListsOf({"Hypertension", "Diabetes"}), allergies : ListsOf({"Shellfish"}),
     age : {0, 74}, address : {NULL, "Boston, MA"}]

\* ---- the Patient row: from the resource to the inserted values ----
\* the deceasedDateTime texts: none, an ISO-8601 time, the empty text, a
\* text that is no time
IsoTexts == {NULL, "2020-01-01T10:00:00Z", "", "yesterday"}

\* FHIRAnalyzer.iso_to_sql: None for None, the SQL timestamp of an ISO-8601
\* text, ValueError for any other text
iso_to_sql(iso_ts) ==
    IF iso_ts = NULL THEN Returned(NULL)
    ELSE IF iso_ts = "2020-01-01T10:00:00Z" THEN Returned("2020-01-01 10:00:00")
    ELSE Raised

PatientResources ==
    [identifier : ListArgs(Identifiers), deceasedDateTime : IsoTexts,
     birthDate : {DateText(1950, 6, 15)}]

\* _extract_patient_data, lines 230-257: the flat record of a Patient
extract_patient_data(resource) ==
    LET identifier_info == extract_identifiers(resource.identifier) IN
    IF identifier_info.raised THEN Raised
    ELSE Returned([birth_date |-> resource.birthDate,
                   deceased_datetime |-> resource.deceasedDateTime,
                   ssn |-> identifier_info.value.ssn,
                   mrn |-> identifier_info.value.mrn,
                   uuid |-> identifier_info.value.uuid,
                   driver_license |-> identifier_info.value.driver_license,
                   passport |-> identifier_info.value.passport])

\* _process_patient_info, lines 1015-1039: patient_dict
patient_dict_of(patient_res, today) ==
    LET age == age_of(patient_res.birth_date, today)
        deceased == iso_to_sql(patient_res.deceased_datetime)
    IN  IF age.raised \/ deceased.raised THEN Raised
        ELSE Returned([birth_date |-> patient_res.birth_date,
                       current_age |-> age.value,
                       ssn_id |-> patient_res.ssn,
                       mrn_id |-> patient_res.mrn,
                       uuid_id |-> patient_res.uuid,
                       driver_license |-> patient_res.driver_license,
                       passport_number |-> patient_res.passport,
                       deceased_datetime |-> deceased.value])

\* the flag set for every text but the empty one
deceased_unless_empty(deceased_datetime) == deceased_datetime # ""

\* extract_data, line 77: True if data['deceased_datetime'] else False
deceased_flag(deceased_datetime) == Truthy(deceased_datetime)

\* the Patient values with the record number and the security number
\* exchanged
patient_input_exchanged(data) ==
    [age |-> data.current_age,
     birthdate |-> data.birth_date,
     social_security_number |-> data.mrn_id,
     medical_record_number |-> data.ssn_id,
     driver_license |-> data.driver_license,
     passport_number |-> data.passport_number,
     deceased |-> deceased_flag(data.deceased_datetime),
     deceased_datetime |-> data.deceased_datetime]

\* extract_data, lines 59-79: input_data of the Patient row
patient_input(data) ==
    [age |-> data.current_age,
     birthdate |-> data.birth_date,
     social_security_number |-> data.ssn_id,
     medical_record_number |-> data.mrn_id,
     driver_license |-> data.driver_license,
     passport_number |-> data.passport_number,
     deceased |-> deceased_flag(data.deceased_datetime),
     deceased_datetime |-> data.deceased_datetime]

\* the values extract_data inserts for a Patient resource, or that the
\* document is given up before the insert
patient_row(resource, today) ==
    LET patient_res == extract_patient_data(resource) IN
    IF patient_res.raised THEN Raised
    ELSE LET data == patient_dict_of(patient_res.value, today) IN
         IF data.raised THEN Raised ELSE Returned(patient_input(data.value))

\* ---- analyze_fhir ----
\* the documents analyze_fhir is called with: texts that are no JSON, JSON
\* values that are no object, a single resource, and bundles
AnalyzerInputs ==
    { Document(TRUE, "invalid", NULL, << >>),
      Document(TRUE, "list", NULL, << >>),
      Document(FALSE, "list", NULL, << >>),
      Document(TRUE, "dict", "Patient", << >>),
      Document(FALSE, "dict", "Bundle", << >>),
      StoredBundle(<< PatNoName("u4"), Res("Condition") >>),
      StoredBundle(<< Pat("u1"), Bad("Observation") >>),
      StoredBundle(<< Res("Condition"), PatNoName("u4"), Pat("u1") >>) }
    \cup { StoredBundle(Bundle(b)) : b \in BundleNames }

\* ---- the calls ----
DecoderCalls ==
    [fn : {"extract_codeable_concept"}, arg : Concepts, prefer_text : BOOLEAN] \cup
    [fn : {"extract_identifiers"}, arg : ListArgs(Identifiers), prefer_text : {TRUE}] \cup
    [fn : {"extract_human_name"}, arg : ListArgs(Names), prefer_text : {TRUE}] \cup
    [fn : {"extract_dosage"}, arg : ListArgs(Dosages), prefer_text : {TRUE}] \cup
    [fn : {"extract_condition_data", "extract_procedure_data"},
     arg : EventResources, prefer_text : {TRUE}] \cup
    [fn : {"patient_row"}, arg : PatientResources, prefer_text : {TRUE}] \cup
    [fn : {"description"}, arg : DescriptionInputs, prefer_text : {TRUE}] \cup
    [fn : {"current_age"}, arg : [birth_date : BirthTexts \cup {NoDate}, today : Todays],
     prefer_text : {TRUE}] \cup
    [fn : {"analyze_fhir"}, arg : AnalyzerInputs, prefer_text : {TRUE}]

Decode(fn, result) ==
    /\ ~parser_done
    /\ parser_call.fn = fn
    /\ parser_result' = result
    /\ parser_done' = TRUE
    /\ UNCHANGED << storeVars, callVars, faults, extractVars, bundleVars, searchVars,
                    parser_call, workers >>

DecodeConcept ==
    Decode("extract_codeable_concept",
           Returned(extract_codeable_concept(parser_call.arg, parser_call.prefer_text)))
DecodeIdentifiers == Decode("extract_identifiers", extract_identifiers(parser_call.arg))
DecodeName == Decode("extract_human_name", extract_human_name(parser_call.arg))
DecodeDosage == Decode("extract_dosage", extract_dosage(parser_call.arg))
MapCondition ==
    Decode("extract_condition_data", Returned(extract_condition_data(parser_call.arg)))
MapProcedure ==
    Decode("extract_procedure_data", Returned(extract_procedure_data(parser_call.arg)))

ComputeAge ==
    Decode("current_age", age_of(parser_call.arg.birth_date, parser_call.arg.today))

Describe ==
    Decode("description",
           Returned(description(parser_call.arg.conditions, parser_call.arg.allergies,
                                parser_call.arg.age, parser_call.arg.address)))

BuildPatientRow ==
    Decode("patient_row", patient_row(parser_call.arg, DateText(2024, 7, 1)))

Analyze == Decode("analyze_fhir", Returned(analyze_fhir_data(parser_call.arg)))

InitParser ==
    /\ PipelineInit /\ BundleIdle /\ SearchIdle /\ InterleaveIdle
    /\ parser_call \in DecoderCalls
    /\ parser_done = FALSE
    /\ parser_result = [raised |-> FALSE, value |-> NULL]

NextParser ==
    \/ DecodeConcept
    \/ DecodeIdentifiers
    \/ DecodeName
    \/ DecodeDosage
    \/ MapCondition
    \/ MapProcedure
    \/ ComputeAge
    \/ Describe
    \/ BuildPatientRow
    \/ Analyze

SpecParser == InitParser /\ [][NextParser]_vars

(***************************************************************************)
(* Decoder properties                                                      *)
(***************************************************************************)
Called(fn) == parser_done /\ parser_call.fn = fn

\* C17: every field decoder is total: for every input, a null "use" tag,
\* an identifier type with an empty coding list and a non-dict list element
\* included, it returns a result and never raises.
C17_DecodersTotal == parser_done => ~parser_result.raised

\* the claimed default policy: text, else the first coding's display, else
\* the first coding's code, else null
FirstCodingPolicy(cc) ==
    IF cc.kind # "dict" THEN NULL
    ELSE IF Truthy(cc.text) THEN cc.text
    ELSE IF cc.coding = << >> \/ cc.coding[1].kind # "dict" THEN NULL
    ELSE IF Truthy(cc.coding[1].display) THEN cc.coding[1].display
    ELSE IF Truthy(cc.coding[1].code) THEN cc.coding[1].code
    ELSE NULL

\* C18: with the default policy extract_codeable_concept returns the text
\* if present, else the first coding's display, else the first coding's
\* code, else null; codings after the first are never consulted.
C18_FirstCodingOnly ==
    (Called("extract_codeable_concept") /\ parser_call.prefer_text) =>
        parser_result.value = FirstCodingPolicy(parser_call.arg)

\* the typed part of a result of extract_identifiers
Typed(result) ==
    [mrn |-> result.mrn, uuid |-> result.uuid, ssn |-> result.ssn,
     driver_license |-> result.driver_license, passport |-> result.passport]

Reorderings(items) ==
    { [j \in 1..Len(items) |-> items[p[j]]] :
      p \in { f \in [1..Len(items) -> 1..Len(items)] :
                 \A a, b \in 1..Len(items) : a # b => f[a] # f[b] } }

\* the typed fields whose rule the identifier satisfies
RulesSatisfied(ident) ==
    { f \in {"mrn", "uuid", "ssn", "driver_license", "passport"} :
        CASE f = "mrn" -> id_type_of(ident) = "MR"
          [] f = "uuid" -> ident.system = SyntheaSystem
          [] f = "ssn" -> id_type_of(ident) = "SB" \/ has_ssn_marker(ident.system)
          [] f = "driver_license" -> id_type_of(ident) = "DL"
          [] f = "passport" -> id_type_of(ident) = "PPN" }

\* C19: the typed result of extract_identifiers is the same for every
\* permutation of the list, and an identifier that satisfies the condition
\* of a rule is classified under that rule whatever other rules it
\* satisfies.
C19_ClassificationOrderIndependent ==
    (Called("extract_identifiers") /\ ~parser_result.raised
            /\ parser_call.arg.kind = "list") =>
        /\ \A items \in Reorderings(parser_call.arg.items) :
               LET other == extract_identifiers(ListArg(items)) IN
               ~other.raised /\ Typed(other.value) = Typed(parser_result.value)
        /\ Len(parser_call.arg.items) = 1 /\ parser_call.arg.items[1].kind = "dict" =>
               \A f \in RulesSatisfied(parser_call.arg.items[1]) :
                   parser_result.value[f] = parser_call.arg.items[1].value

\* the claimed priority of the alternatives
ClaimedOrder == << "datetime", "period", "age", "string" >>

ClaimedSubFields(prefix, resource) ==
    LET alt == first_present(ClaimedOrder, 1, resource) IN
    IF alt = "none" THEN {} ELSE SubFields(prefix, alt)

\* C20: for the onset of a Condition and the performed of a Procedure the
\* mapper takes the first alternative present in the order datetime,
\* period, age, string, and populates the sub-fields of that one only.
C20_EventTimePriority ==
    /\ Called("extract_condition_data") =>
           parser_result.value = ClaimedSubFields("onset", parser_call.arg)
    /\ Called("extract_procedure_data") =>
           parser_result.value = ClaimedSubFields("performed", parser_call.arg)

(***************************************************************************)
(* Patient summary properties                                              *)
(***************************************************************************)
\* the date is not after the other
NotAfter(a, b) ==
    \/ a.year < b.year
    \/ a.year = b.year /\ a.month < b.month
    \/ a.year = b.year /\ a.month = b.month /\ a.day <= b.day

\* the k-th anniversary of a date
Anniversary(date, k) == [date EXCEPT !.year = @ + k]

AgeComputed ==
    /\ Called("current_age") /\ ~parser_result.raised
    /\ NotAfter(parser_call.arg.birth_date, parser_call.arg.today)

\* C21: for a birth date not after the reference date the computed age is
\* the number of complete years elapsed (the last anniversary not after the
\* reference date), is never negative, counts a birthday falling on the
\* reference date as passed, and is 74 for 1950-06-15 on 2024-07-01.
C21_AgeIsCompleteYears ==
    AgeComputed =>
        LET birth == parser_call.arg.birth_date
            today == parser_call.arg.today
            age == parser_result.value
        IN  /\ age >= 0
            /\ NotAfter(Anniversary(birth, age), today)
            /\ ~NotAfter(Anniversary(birth, age + 1), today)
            /\ (birth.month = today.month /\ birth.day = today.day) =>
                   age = today.year - birth.year
            /\ (birth = DateText(1950, 6, 15) /\ today = DateText(2024, 7, 1)) => age = 74

C21_Witness ==
    /\ AgeComputed
    /\ parser_call.arg.birth_date = DateText(1950, 6, 15)
    /\ parser_call.arg.today = DateText(2024, 7, 1)
    /\ parser_result.value = 74
\* C22: the description is the condition summary, the allergy summary, the
\* age fragment and the address fragment, in that order, of those whose
\* source data is present (the age fragment also for age 0), joined with
\* ". "; an absent fragment adds neither text nor separator.
C22_DescriptionJoinsPresentFragments ==
    Called("description") =>
        parser_result.value =
            join_present(<< conditions_str(parser_call.arg.conditions),
                            allergy_str(parser_call.arg.allergies),
                            << " Age: ", age_text(parser_call.arg.age) >>,
                            address_str(parser_call.arg.address) >>, 1, FALSE)
\* the six child resource types
ChildResourceTypes ==
    {"AllergyIntolerance", "Immunization", "Observation", "Condition", "Procedure",
     "CarePlan"}

\* C23: for each of the six child resource types and every bundle with a
\* valid Patient, the number of rows extract_data inserts for the document
\* from resources of that type equals the number of resources of that type
\* in the bundle.
C23_ElementPerResource ==
    (ExtractTerminated /\ failure = "none") =>
        \A j \in 1..Len(df) :
            PatientRowsOf(j) # {} =>
                \A t \in ChildResourceTypes :
                    Cardinality({ c \in ChildRowsOf(j) : c.src = t })
                        = Cardinality({ k \in 1..Len(Bundle(df[j].fhir_bundle)) :
                                          Bundle(df[j].fhir_bundle)[k].rt = t })
\* a Patient row was built and is inserted
RowBuilt == Called("patient_row") /\ ~parser_result.raised

C29_DeceasedFlagFollowsDatetime ==
    RowBuilt =>
        /\ parser_result.value.deceased \in BOOLEAN
        /\ parser_result.value.deceased <=> (parser_result.value.deceased_datetime # NULL)

C29_Witness ==
    /\ RowBuilt
    /\ parser_result.value.deceased
    /\ parser_result.value.deceased_datetime = "2020-01-01 10:00:00"
\* the rows of before are still there, unchanged and in place
KeepsRows(before, after) ==
    /\ Len(before) <= Len(after)
    /\ \A k \in 1..Len(before) : after[k] = before[k]

\* C25: extract_data only appends: every step of it leaves the rows of
\* FHIRrepository unchanged and keeps every row the Patient table and the
\* child tables held, with the same values.
C25_ExtractOnlyAppends ==
    [][(epc # "idle" \/ epc' # "idle") =>
          /\ repoRows' = repoRows
          /\ KeepsRows(patientRows, patientRows')
          /\ KeepsRows(childRows, childRows')]_vars

\* a run that found rows of an earlier run and added its own
C25_Witness ==
    /\ ExtractTerminated
    /\ passStart[1] > 0 /\ passStart[2] > 0
    /\ Len(patientRows) > passStart[1] /\ Len(childRows) > passStart[2]
(***************************************************************************)
(* Schema states                                                           *)
(***************************************************************************)
\* the tables that exist before and after each statement of create_tables
\* from statement group j on
RECURSIVE SchemasDuringCreate(_, _)
SchemasDuringCreate(db, j) ==
    {db.tables} \cup
    (IF j > Len(CreateSteps) \/ db.raised THEN {}
     ELSE SchemasDuringCreate(CreateStep(db, CreateSteps[j], FALSE), j + 1))

\* the tables that exist before and after each drop of init_schema from
\* drop j on
RECURSIVE SchemasDuringDrop(_, _)
SchemasDuringDrop(db, j) ==
    {db.tables} \cup
    (IF j > Len(DropOrder) THEN {}
     ELSE SchemasDuringDrop(drop_table(db, DropOrder[j], FALSE), j + 1))

\* the tables that exist between the steps of a schema call started now:
\* create_tables, the drops of init_schema, and its create_tables after them
IntermediateSchemas ==
    SchemasDuringDrop(SchemaState, 1)
    \cup SchemasDuringCreate(SchemaState, 1)
    \cup SchemasDuringCreate(RunDrop(SchemaState, 1, 0), 1)

ReferencedTableExists(T) == (T \cap ChildTables # {}) => "Patient" \in T

\* C26: in every state reachable through init_schema and create_tables,
\* the states between their drop and create steps included, whenever a
\* child table exists the Patient table exists too.
C26_ChildTablesNeedPatient ==
    /\ ReferencedTableExists(tables)
    /\ epc = "idle" => \A T \in IntermediateSchemas : ReferencedTableExists(T)

\* init_schema stopped between the drops of two child tables
C26_Witness ==
    /\ call = "init_schema" /\ failure = "fault"
    /\ "CarePlan" \notin tables
    /\ "Condition" \in tables /\ "Patient" \in tables
(***************************************************************************)
(* The per-document steps of extract_data, interleaved across documents    *)
(***************************************************************************)
MaxDocs == 3       \* most documents processed side by side

\* the documents: pairwise distinct business identifiers, and the tables of
\* the elements of each
BusinessId(d) == << "u1", "u2", "u3", "u4" >>[d]
ElementTables == << "Condition", "Observation" >>

\* a document before its first step
Waiting == [pc |-> "insert_patient", pat_row_id |-> NoRow, elem_e |-> 1]

\* extract_data, line 81: the Patient insert of document d
WorkerInsertPatient(d) ==
    /\ workers[d].pc = "insert_patient"
    /\ patientRows' = insert(patientRows,
                             [ID |-> nextId, patient_id |-> BusinessId(d), doc |-> d])
    /\ nextId' = nextId + 1
    /\ workers' = [workers EXCEPT ![d].pc = "get_row_id"]
    /\ UNCHANGED childRows

\* line 82: the lookup of the surrogate key by the business identifier
WorkerGetRowId(d) ==
    /\ workers[d].pc = "get_row_id"
    /\ \E id \in get_row_id(BusinessId(d)) :
          workers' = [workers EXCEPT ![d].pat_row_id = id, ![d].pc = "insert_child"]
    /\ UNCHANGED << patientRows, childRows, nextId >>

\* lines 84-91: the insert of the next element of document d
WorkerInsertChild(d) ==
    /\ workers[d].pc = "insert_child"
    /\ childRows' = insert(childRows,
                           [table |-> ElementTables[workers[d].elem_e],
                            patient_id |-> workers[d].pat_row_id,
                            pos |-> workers[d].elem_e, doc |-> d])
    /\ workers' = [workers EXCEPT
                     ![d].elem_e = @ + 1,
                     ![d].pc = IF workers[d].elem_e = Len(ElementTables)
                               THEN "done" ELSE "insert_child"]
    /\ UNCHANGED << patientRows, nextId >>

InterleaveFrame ==
    UNCHANGED << tables, indices, repoRows, callVars, faults, extractVars, bundleVars,
                 searchVars, parserVars >>

InsertPatientStep == \E d \in DOMAIN workers : WorkerInsertPatient(d) /\ InterleaveFrame
GetRowIdStep == \E d \in DOMAIN workers : WorkerGetRowId(d) /\ InterleaveFrame
InsertChildStep == \E d \in DOMAIN workers : WorkerInsertChild(d) /\ InterleaveFrame

InitInterleave ==
    /\ PipelineInit /\ BundleIdle /\ SearchIdle /\ ParserIdle
    /\ \E n \in 1..MaxDocs : workers = [d \in 1..n |-> Waiting]

NextInterleave ==
    \/ InsertPatientStep
    \/ GetRowIdStep
    \/ InsertChildStep

SpecInterleave == InitInterleave /\ [][NextInterleave]_vars

\* every document has done all its steps
AllDone == \A d \in DOMAIN workers : workers[d].pc = "done"

\* the orders in which the documents may be run one after the other
RunOrders ==
    { f \in [DOMAIN workers -> DOMAIN workers] :
        \A a, b \in DOMAIN workers : a # b => f[a] # f[b] }

\* the rows a run of the documents one after the other, in the given order,
\* leaves in the Patient table and in the child tables
SequentialPatients(order) ==
    { [ID |-> k, patient_id |-> BusinessId(order[k]), doc |-> order[k]] :
        k \in DOMAIN workers }
SequentialChildren(order) ==
    { [table |-> ElementTables[e], patient_id |-> k, pos |-> e, doc |-> order[k]] :
        k \in DOMAIN workers, e \in 1..Len(ElementTables) }

\* C27: when the steps of several documents with pairwise distinct business
\* identifiers are interleaved, each document's steps in their own order,
\* every child row references the Patient row of its own document, and the
\* final table contents are those of some run of the documents one after
\* the other.
C27_InterleavingKeepsOwnership ==
    /\ \A c \in Range(childRows) :
           \E p \in Range(patientRows) : p.ID = c.patient_id /\ p.doc = c.doc
    /\ AllDone =>
           \E order \in RunOrders :
               /\ Range(patientRows) = SequentialPatients(order)
               /\ Range(childRows) = SequentialChildren(order)
               /\ Len(patientRows) = Cardinality(SequentialPatients(order))
               /\ Len(childRows) = Cardinality(SequentialChildren(order))

\* two documents whose child inserts alternated, the second document's
\* Patient row inserted before the first looked its key up
C27_Witness ==
    /\ AllDone
    /\ Len(patientRows) >= 2
    /\ \E i, j, k \in 1..Len(childRows) :
          /\ i < j /\ j < k
          /\ childRows[i].doc = childRows[k].doc
          /\ childRows[i].doc # childRows[j].doc
\* analyze_fhir was called and logged an error
ErrorDetected == Called("analyze_fhir") /\ parser_result.value.error # "none"

\* the rows extract_data stores for what analyze_fhir returned (line 46: the
\* record map is tested, and one Patient row and the element rows follow)
StoresRows(analysis) == analysis.pat_dict # << >>

\* C28: whenever analyze_fhir detects an error in a document, the errors it
\* raises itself included ("Patient name not found", "DataFrame is empty",
\* input that is not a JSON object), it returns the empty description and
\* the empty record map, so extract_data stores no row for the document.
C28_ErrorsReturnEmpty ==
    ErrorDetected =>
        /\ ~StoresRows(parser_result.value)
        /\ parser_result.value.info = ""
(***************************************************************************)
(* Query parameters                                                        *)
(***************************************************************************)
\* the input a "?" stands for: the m-th "?" of the clause
BoundValue(clause, m) ==
    CASE clause = "SELECT TOP ?" -> IntParam(num_results)
      [] clause = "VECTOR_DOT_PRODUCT(?) AS similarity" -> StrParam(embedding_str)
      [] clause = "AND gender = ?" -> StrParam(filters.gender)
      [] clause = "AND age BETWEEN ? AND ?" -> IntParam(filters.age_range[m])
      [] clause = "ORDER BY VECTOR_DOT_PRODUCT(?) DESC" -> StrParam(embedding_str)

\* the clauses holding a "?", in the order the claim names them
PlaceholderRank(clause) ==
    CASE clause = "SELECT TOP ?" -> 1
      [] clause = "VECTOR_DOT_PRODUCT(?) AS similarity" -> 2
      [] clause = "AND gender = ?" -> 3
      [] clause = "AND age BETWEEN ? AND ?" -> 4
      [] clause = "ORDER BY VECTOR_DOT_PRODUCT(?) DESC" -> 5
      [] OTHER -> 0

\* C30: for every combination of inputs to build_hybrid_query the parameter
\* list has exactly one value per "?" of the query, in the textual order of
\* the "?": the cap, the embedding of the similarity column, the gender,
\* the age minimum and maximum, the embedding of the ORDER BY term.
C30_OneParameterPerPlaceholder ==
    QueryRan =>
        /\ Len(sql.parameters) = Offset(sql.query, Len(sql.query) + 1)
        /\ \A i \in 1..Len(sql.query) : \A m \in 1..Len(Placeholders(sql.query[i])) :
               /\ Offset(sql.query, i) + m <= Len(sql.parameters)
               /\ Arg(sql, i, m) = BoundValue(sql.query[i], m)
        /\ \A i, j \in 1..Len(sql.query) :
               (i < j /\ PlaceholderRank(sql.query[i]) > 0 /\ PlaceholderRank(sql.query[j]) > 0)
                   => PlaceholderRank(sql.query[i]) < PlaceholderRank(sql.query[j])
        /\ sql.parameters[1] = IntParam(num_results)

\* a ranked query with every filter chosen: six parameters
C30_Witness ==
    /\ search_status = "returned"
    /\ embedding_str = "vec"
    /\ filters = [gender |-> "Female", deceased |-> "Deceased", age_range |-> << 30, 40 >>]
    /\ sql.parameters = << IntParam(num_results), StrParam("vec"), StrParam("Female"),
                           IntParam(30), IntParam(40), StrParam("vec") >>
====
